---- MODULE Spec2Model ----
(***************************************************************************)
(* A model of xml2js.py: the conversion of a parsed lxml node tree into    *)
(* the xml-js style JSON value (verbose or compact).                       *)
(*                                                                         *)
(* Strings are sequences of tokens (a token is one character of text, or   *)
(* one piece of markup such as "<" or "![CDATA["), so that strip(), the    *)
(* serialisation done by tostring() and the substring and regular          *)
(* expression searches of the code are computed, not assumed.              *)
(*                                                                         *)
(* A JSON value is a record tagged by its field t:                         *)
(*   [t |-> "str",  s |-> tokens]          a Python str                    *)
(*   [t |-> "list", items |-> <<v, ...>>]  a Python list                   *)
(*   [t |-> "dict", items |-> <<[k, v], ...>>]  an OrderedDict             *)
(*   [t |-> "none"]                        None                            *)
(*   [t |-> "err",  msg |-> "..."]         a returned Exception object     *)
(***************************************************************************)
EXTENDS Integers, Sequences, FiniteSets

VARIABLES element, strip_cdata, header, compact, remove_blank_text, result, pc

vars == <<element, strip_cdata, header, compact, remove_blank_text, result, pc>>

\* The largest number of nodes (elements, comments, processing instructions
\* and text nodes) of an input document.
MaxNodes == 4

----------------------------------------------------------------------------
(* Sequences *)

\* <<f(s[1]), ..., f(s[n])>>
RECURSIVE Map(_, _)
Map(f(_), s) == IF s = <<>> THEN <<>> ELSE <<f(Head(s))>> \o Map(f, Tail(s))

\* f(s[1]) \o ... \o f(s[n])
RECURSIVE FlatMap(_, _)
FlatMap(f(_), s) == IF s = <<>> THEN <<>> ELSE f(Head(s)) \o FlatMap(f, Tail(s))

\* `pat in str` of Python, on token sequences.
Contains(str, pat) ==
    \E i \in 0..(Len(str) - Len(pat)) :
        \A j \in 1..Len(pat) : str[i + j] = pat[j]

IsSpace(c) == c = " "

\* str.strip(): leading and trailing whitespace removed.
RECURSIVE LStrip(_)
LStrip(s) == IF s # <<>> /\ IsSpace(Head(s)) THEN LStrip(Tail(s)) ELSE s

RECURSIVE RStrip(_)
RStrip(s) ==
    IF s # <<>> /\ IsSpace(s[Len(s)]) THEN RStrip(SubSeq(s, 1, Len(s) - 1)) ELSE s

Strip(s) == RStrip(LStrip(s))

----------------------------------------------------------------------------
(* JSON values *)

Str(s) == [t |-> "str", s |-> s]
List(items) == [t |-> "list", items |-> items]
Dict(items) == [t |-> "dict", items |-> items]
None == [t |-> "none"]
Err(msg) == [t |-> "err", msg |-> msg]

IsErr(v) == v.t = "err"
IsList(v) == v.t = "list"
IsDict(v) == v.t = "dict"

\* Python truthiness of a value: None, "", [] and {} are false, and an
\* Exception object is true.
Truthy(v) ==
    CASE v.t = "none" -> FALSE
      [] v.t = "str" -> v.s # <<>>
      [] v.t = "list" -> v.items # <<>>
      [] v.t = "dict" -> v.items # <<>>
      [] OTHER -> TRUE

Keys(d) == Map(LAMBDA en : en.k, d.items)

Has(d, k) == \E i \in 1..Len(d.items) : d.items[i].k = k

Get(d, k) == d.items[CHOOSE i \in 1..Len(d.items) : d.items[i].k = k].v

\* d[k] = v: an existing key keeps its place, a new key goes last.
Put(d, k, v) ==
    IF Has(d, k)
    THEN Dict(Map(LAMBDA en : IF en.k = k THEN [k |-> k, v |-> v] ELSE en, d.items))
    ELSE Dict(Append(d.items, [k |-> k, v |-> v]))

\* d.update(other), other a mapping.
RECURSIVE PutAll(_, _)
PutAll(d, items) ==
    IF items = <<>> THEN d
    ELSE PutAll(Put(d, Head(items).k, Head(items).v), Tail(items))

Update(d, other) == PutAll(d, other.items)

Pop(d, k) == Dict(SelectSeq(d.items, LAMBDA e : e.k # k))

----------------------------------------------------------------------------
(* The node tree the parser hands over (lxml):                             *)
(*   kind      "element", "comment", "pi", or "other" for an object that   *)
(*             is none of etree's node types                               *)
(*   tag       the tag name (the target of a processing instruction)       *)
(*   attrib    the attributes, in source order                             *)
(*   text      the text nodes before the first child                       *)
(*   children  the child elements, comments and processing instructions    *)
(*   tail      the text nodes between this node and its next sibling       *)
(*   content   the text of a comment, the body of a processing instruction *)
(* A text node is [cdata |-> whether it was a CDATA section, s |-> text].  *)

TextNode(cdata, s) == [cdata |-> cdata, s |-> s]

Node(kind, tag, attrib, text, children, content, tail) ==
    [kind |-> kind, tag |-> tag, attrib |-> attrib, text |-> text,
     children |-> children, content |-> content, tail |-> tail]

Attr(k, v) == [k |-> k, v |-> Str(v)]

GetChildren(e) == e.children

\* element.xpath('text()'): the text nodes that are children of the element,
\* in document order: its text, then the tail of each child.
XPathText(e) == e.text \o FlatMap(LAMBDA c : c.tail, e.children)

\* The serialiser writes "&", "<" and ">" of a text node as entities.
EscapeToken(c) ==
    CASE c = "&" -> "&amp;"
      [] c = "<" -> "&lt;"
      [] c = ">" -> "&gt;"
      [] OTHER -> c

TextNodeStr(n) ==
    IF n.cdata THEN <<"<", "![CDATA[">> \o n.s \o <<"]]", ">">>
    ELSE Map(EscapeToken, n.s)

TextStr(ns) == FlatMap(TextNodeStr, ns)

AttribStr(as) == FlatMap(LAMBDA a : <<" ", a.k, "=\"">> \o a.v.s \o <<"\"">>, as)

\* tostring(element).decode(): the element, its descendants and its tail.
RECURSIVE tostring(_)
tostring(e) ==
    (CASE e.kind = "comment" -> <<"<!--">> \o e.content \o <<"-->">>
       [] e.kind = "pi" ->
            <<"<?", e.tag>> \o (IF e.content = <<>> THEN <<>> ELSE <<" ">> \o e.content)
                \o <<"?>">>
       [] OTHER ->
            IF e.text = <<>> /\ e.children = <<>>
            THEN <<"<", e.tag>> \o AttribStr(e.attrib) \o <<"/>">>
            ELSE <<"<", e.tag>> \o AttribStr(e.attrib) \o <<">">> \o TextStr(e.text)
                   \o FlatMap(tostring, e.children)
                   \o <<"</", e.tag, ">">>)
    \o TextStr(e.tail)

----------------------------------------------------------------------------
(* xml_text *)

\* IsCdata without the test of strip_cdata.
IsCdataUnstripped(element_str, text, sc) ==
    Contains(element_str, <<"![CDATA[">> \o text \o <<"]]">>)

\* Line 30: whether a stripped text run is taken for a CDATA section.
IsCdata(element_str, text, sc) ==
    IF ~sc THEN Contains(element_str, <<"![CDATA[">> \o text \o <<"]]">>) ELSE FALSE

\* Lines 25-27: the stripped direct text runs, the empty ones dropped on
\* remove_blank_text.
TextIter(e, rb) ==
    LET stripped == Map(LAMBDA n : Strip(n.s), XPathText(e))
    IN  IF rb THEN SelectSeq(stripped, LAMBDA text : text # <<>>) ELSE stripped

\* Fold without the pop of an empty list.
FoldKeepEmpty(output, key) ==
    LET l == Get(output, key).items
    IN  IF Len(l) = 1 THEN Put(output, key, l[1]) ELSE output

\* Lines 43-46 and 47-50: a field of the compact output is dropped when its
\* list is empty and holds the bare string when its list has one entry.
Fold(output, key) ==
    LET l == Get(output, key).items
    IN  IF l = <<>> THEN Pop(output, key)
        ELSE IF Len(l) = 1 THEN Put(output, key, l[1])
        ELSE output

\* Line 51: no text run at all gives None.
OutputOrNone(output, iter_count) == IF iter_count # 0 THEN output ELSE None

xml_text(e, sc, cp, rb) ==
    IF e.kind = "other"
    THEN Err("TypeError: Type cannot be serialized.")
    ELSE
    LET element_str == tostring(e)
        texts == TextIter(e, rb)
        cdata(text) == IsCdata(element_str, text, sc)
        output ==
            IF cp
            THEN LET filled ==
                        Dict(<< [k |-> "_cdata",
                                 v |-> List(Map(Str, SelectSeq(texts, cdata)))],
                                [k |-> "_text",
                                 v |-> List(Map(Str, SelectSeq(texts, LAMBDA x : ~cdata(x))))] >>)
                 IN  Fold(Fold(filled, "_cdata"), "_text")
            ELSE List(Map(LAMBDA text :
                            IF cdata(text)
                            THEN Dict(<< [k |-> "type", v |-> Str(<<"cdata">>)],
                                         [k |-> "cdata", v |-> Str(text)] >>)
                            ELSE Dict(<< [k |-> "type", v |-> Str(<<"text">>)],
                                         [k |-> "text", v |-> Str(text)] >>),
                          texts))
    IN  OutputOrNone(output, Len(texts))

----------------------------------------------------------------------------
(* leafelement *)

\* Lines 71-72: re.search('<\?[^\s]+', proc_inst) with the "<?" removed:
\* the run of non-blank characters that follows the first "<?".
RECURSIVE NonSpaceRun(_)
NonSpaceRun(s) ==
    IF s = <<>> \/ IsSpace(Head(s)) THEN <<>> ELSE <<Head(s)>> \o NonSpaceRun(Tail(s))

PiName(proc_inst) ==
    IF \E i \in 1..(Len(proc_inst) - 1) : proc_inst[i] = "<?" /\ ~IsSpace(proc_inst[i + 1])
    THEN LET i == CHOOSE i \in 1..(Len(proc_inst) - 1) :
                    /\ proc_inst[i] = "<?" /\ ~IsSpace(proc_inst[i + 1])
                    /\ \A j \in 1..(i - 1) : ~(proc_inst[j] = "<?" /\ ~IsSpace(proc_inst[j + 1]))
         IN  SelectSeq(NonSpaceRun(SubSeq(proc_inst, i + 1, Len(proc_inst))),
                       LAMBDA c : c # "<?")
    ELSE <<>>

\* Lines 73-74: re.search(' [^=\s]+\?>$', proc_inst), then [:-2].strip():
\* the serialised form ends with a blank, a run without "=" or blank, "?>".
PiInstruction(proc_inst) ==
    LET n == Len(proc_inst)
        ok(i) == /\ IsSpace(proc_inst[i])
                 /\ i + 1 < n
                 /\ proc_inst[n] = "?>"
                 /\ \A j \in (i + 1)..(n - 1) : ~IsSpace(proc_inst[j]) /\ proc_inst[j] # "="
    IN  IF \E i \in 1..n : ok(i)
        THEN Strip(SubSeq(proc_inst, CHOOSE i \in 1..n : ok(i), n - 1))
        ELSE <<>>

\* The default of the parameter remove_blank_text (lines 57 and 111).
DefaultRemoveBlankText == TRUE

leafelement(e, sc, cp, rb) ==
    IF GetChildren(e) # <<>>
    THEN Err("LevelError: The element is not at the lowest level.")
    ELSE
    CASE e.kind = "pi" ->
            LET proc_inst == tostring(e)
                name == PiName(proc_inst)
                instruction == PiInstruction(proc_inst)
                output ==
                    IF cp
                    THEN Dict(<< [k |-> "_instruction",
                                  v |-> Dict(<< [k |-> "name", v |-> Str(instruction)] >>)] >>)
                    ELSE Dict(<< [k |-> "type", v |-> Str(<<"instruction">>)],
                                 [k |-> "name", v |-> Str(name)],
                                 [k |-> "instruction", v |-> Str(instruction)] >>)
            IN  IF e.attrib # <<>> THEN Put(output, "attributes", Dict(e.attrib)) ELSE output
      [] e.kind = "comment" ->
            IF cp THEN Dict(<< [k |-> "_comment", v |-> Str(e.content)] >>)
            ELSE Dict(<< [k |-> "type", v |-> Str(<<"comment">>)],
                         [k |-> "comment", v |-> Str(e.content)] >>)
      [] e.kind = "element" ->
            LET text_output == xml_text(e, sc, cp, rb)
                inner == IF e.attrib # <<>>
                         THEN Dict(<< [k |-> "_attributes", v |-> Dict(e.attrib)] >>)
                         ELSE Dict(<<>>)
                verbose == IF e.attrib # <<>>
                           THEN Dict(<< [k |-> "type", v |-> Str(<<"element">>)],
                                        [k |-> "name", v |-> Str(<<e.tag>>)],
                                        [k |-> "attributes", v |-> Dict(e.attrib)] >>)
                           ELSE Dict(<< [k |-> "type", v |-> Str(<<"element">>)],
                                        [k |-> "name", v |-> Str(<<e.tag>>)] >>)
            IN  IF cp
                THEN IF ~Truthy(text_output)
                     THEN Dict(<< [k |-> e.tag, v |-> inner] >>)
                     ELSE IF IsDict(text_output)
                     THEN Dict(<< [k |-> e.tag, v |-> Update(inner, text_output)] >>)
                     ELSE Err("TypeError: 'Exception' object is not iterable")
                ELSE IF Truthy(text_output)
                     THEN Put(verbose, "elements", text_output)
                     ELSE verbose
      [] OTHER -> Err("TypeError: The input element has invalid type.")

----------------------------------------------------------------------------
(* parseelement *)

\* Lines 128 and 148: the fixed declaration.
Declaration(attributes_key) ==
    Dict(<< [k |-> attributes_key,
             v |-> Dict(<< [k |-> "version", v |-> Str(<<"1.0">>)],
                           [k |-> "encoding", v |-> Str(<<"ISO-8859-1">>)] >>)] >>)

\* The recursive calls left to the default of header (line 111).
ChildHeaderDefault == TRUE

\* Lines 138 and 160: the header argument of the recursive calls.
ChildHeader == FALSE

\* MergeChild with the key of a later child overwriting the value of an
\* earlier one.
MergeChildOverwrite(container, update_info) ==
    IF ~IsDict(update_info)
    THEN Err("AttributeError: 'Exception' object has no attribute 'keys'")
    ELSE Update(container, update_info)

\* Lines 139-145: the compact result of a child goes into the container of
\* its parent under its first key; a key already there becomes a list.
MergeChild(container, update_info) ==
    IF ~IsDict(update_info)
    THEN Err("AttributeError: 'Exception' object has no attribute 'keys'")
    ELSE LET key == Keys(update_info)[1]
         IN  IF Has(container, key)
             THEN LET old == Get(container, key)
                      list == IF IsList(old) THEN old.items ELSE <<old>>
                  IN  Put(container, key, List(Append(list, Get(update_info, key))))
             ELSE Update(container, update_info)

\* ExtendChild with append in the place of extend.
ExtendChildAppend(elements, child_output) ==
    IF ~IsDict(child_output)
    THEN Err("TypeError: 'Exception' object is not subscriptable")
    ELSE List(Append(elements.items, Get(child_output, "elements")))

\* Line 160: the elements of a child's verbose result are appended to the
\* elements of its parent.
ExtendChild(elements, child_output) ==
    IF ~IsDict(child_output)
    THEN Err("TypeError: 'Exception' object is not subscriptable")
    ELSE List(elements.items \o Get(child_output, "elements").items)

\* Line 158: the parent's elements start with its own text records.
ExtendText(elements, text_output) ==
    IF ~Truthy(text_output) THEN elements
    ELSE IF IsList(text_output) THEN List(elements.items \o text_output.items)
    ELSE Err("TypeError: 'Exception' object is not iterable")

RECURSIVE parseelement(_, _, _, _, _)
RECURSIVE CompactChildren(_, _, _, _)
RECURSIVE VerboseChildren(_, _, _, _)

\* Lines 137-145: the loop over the children, left at the first exception.
CompactChildren(container, children, sc, cp) ==
    IF children = <<>> \/ IsErr(container) THEN container
    ELSE CompactChildren(
            MergeChild(container,
                       parseelement(Head(children), sc, ChildHeader, cp, DefaultRemoveBlankText)),
            Tail(children), sc, cp)

\* Lines 159-160.
VerboseChildren(elements, children, sc, cp) ==
    IF children = <<>> \/ IsErr(elements) THEN elements
    ELSE VerboseChildren(
            ExtendChild(elements,
                        parseelement(Head(children), sc, ChildHeader, cp, DefaultRemoveBlankText)),
            Tail(children), sc, cp)

parseelement(e, sc, hd, cp, rb) ==
    LET text_output == xml_text(e, sc, cp, rb)
        leaf == leafelement(e, sc, cp, DefaultRemoveBlankText)
    IN  IF cp
        THEN LET output == IF hd
                           THEN Dict(<< [k |-> "_declaration", v |-> Declaration("_attributes")] >>)
                           ELSE Dict(<<>>)
                 withattr == IF e.attrib # <<>>
                             THEN Dict(<< [k |-> "_attributes", v |-> Dict(e.attrib)] >>)
                             ELSE Dict(<<>>)
                 withtext == IF ~Truthy(text_output) THEN withattr
                             ELSE IF IsDict(text_output) THEN Update(withattr, text_output)
                             ELSE Err("TypeError: 'Exception' object is not iterable")
                 container == CompactChildren(withtext, GetChildren(e), sc, cp)
             IN  IF GetChildren(e) = <<>>
                 THEN IF IsDict(leaf) THEN Update(output, leaf)
                      ELSE Err("TypeError: 'Exception' object is not iterable")
                 ELSE IF IsErr(container) THEN container
                 ELSE Put(output, e.tag, container)
        ELSE LET output == IF hd
                           THEN Dict(<< [k |-> "declaration", v |-> Declaration("attributes")] >>)
                           ELSE Dict(<<>>)
                 first == IF e.attrib # <<>>
                          THEN Dict(<< [k |-> "type", v |-> Str(<<"element">>)],
                                       [k |-> "name", v |-> Str(<<e.tag>>)],
                                       [k |-> "attributes", v |-> Dict(e.attrib)] >>)
                          ELSE Dict(<< [k |-> "type", v |-> Str(<<"element">>)],
                                       [k |-> "name", v |-> Str(<<e.tag>>)] >>)
                 elements == VerboseChildren(ExtendText(List(<<>>), text_output),
                                             GetChildren(e), sc, cp)
             IN  IF GetChildren(e) = <<>>
                 THEN Put(output, "elements", List(<<leaf>>))
                 ELSE IF IsErr(elements) THEN elements
                 ELSE Put(output, "elements", List(<<Put(first, "elements", elements)>>))

----------------------------------------------------------------------------
(* The documents: every tree of at most MaxNodes nodes over a small        *)
(* vocabulary.  A parser never leaves two plain text nodes side by side.   *)

Label(kind, tag, attrib, content) ==
    [kind |-> kind, tag |-> tag, attrib |-> attrib, content |-> content]

LxmlLabels ==
    { Label("element", "a", <<>>, <<>>),
      Label("element", "b", <<Attr("k", <<"v">>)>>, <<>>),
      Label("comment", "", <<>>, <<"c">>),
      Label("pi", "t", <<>>, <<"i">>) }

LxmlTexts ==
    { TextNode(FALSE, <<"x">>), TextNode(FALSE, <<" ">>),
      TextNode(TRUE, <<"x">>), TextNode(TRUE, <<" ", "x">>) }

\* Objects with the interface of a node that are none of etree's types,
\* such as an xml.etree.ElementTree.Element.
OtherLabels == { Label("other", "a", <<>>, <<>>), Label("other", "b", <<>>, <<>>) }

\* The labels of the nodes that can have content.
Containers(L) == { l \in L : l.kind \in {"element", "other"} }

RECURSIVE TextRuns(_, _)
TextRuns(n, T) ==
    IF n = 0 THEN {<<>>}
    ELSE { <<t>> \o r : <<t, r>> \in
             { tr \in T \X TextRuns(n - 1, T) :
                 ~(tr[2] # <<>> /\ ~tr[1].cdata /\ ~tr[2][1].cdata) } }

\* The nodes that with their descendants and tail make n nodes, given the
\* forests of fewer nodes: forests[j + 1] holds the forests of j nodes.
NodesFrom(n, L, T, forests) ==
    UNION { UNION { { Node(l.kind, l.tag, l.attrib, text, children, l.content, tail) :
                        l \in IF i + j = 0 THEN L ELSE Containers(L),
                        text \in TextRuns(i, T),
                        children \in forests[j + 1],
                        tail \in TextRuns(n - 1 - i - j, T) }
                    : j \in 0..(n - 1 - i) }
            : i \in 0..(n - 1) }

\* The sequences of sibling nodes that make n nodes in all, given the nodes
\* of up to n nodes and the forests of fewer.
ForestsFrom(n, nodes, forests) ==
    UNION { { <<first>> \o rest : first \in nodes[k], rest \in forests[n - k + 1] }
            : k \in 1..n }

\* The tables of n nodes from those of n - 1 nodes.  (A set with one
\* element binds a value that is computed once.)
NextTables(n, L, T, prev) ==
    CHOOSE t \in { [nodes |-> nodes, forests |-> Append(prev.forests, forest)] :
                     <<nodes, forest>> \in
                        UNION { { <<ns, ForestsFrom(n, ns, prev.forests)>> }
                                : ns \in { Append(prev.nodes,
                                                  NodesFrom(n, L, T, prev.forests)) } } }
        : TRUE

\* The nodes of 1..n nodes and the forests of 0..n nodes.
RECURSIVE Tables(_, _, _)
Tables(n, L, T) ==
    IF n = 0 THEN [nodes |-> <<>>, forests |-> << {<<>>} >>]
    ELSE CHOOSE t \in { NextTables(n, L, T, prev) : prev \in { Tables(n - 1, L, T) } } : TRUE

LxmlForests == Tables(MaxNodes - 1, LxmlLabels, LxmlTexts).forests

OtherForests == Tables(MaxNodes - 1, OtherLabels, {}).forests

\* d is a document of at most n nodes: a root with no tail; etree.fromstring
\* returns an element.
IsDocument(d, n, L, T, forests) ==
    \E i \in 0..(n - 1) : \E j \in 0..(n - 1 - i) :
        \E l \in Containers(L), text \in TextRuns(i, T), children \in forests[j + 1] :
            d = Node(l.kind, l.tag, l.attrib, text, children, l.content, <<>>)

----------------------------------------------------------------------------
(* The program *)

\* Before the call: the defaults of the options (line 166).
Defaults ==
    /\ strip_cdata = FALSE
    /\ header = TRUE
    /\ compact = FALSE
    /\ remove_blank_text = TRUE
    /\ result = None
    /\ pc = "ready"

\* A document the parser made.
Init ==
    /\ IsDocument(element, MaxNodes, LxmlLabels, LxmlTexts, LxmlForests)
    /\ Defaults

\* A document the parser made, or a tree of objects that are no etree nodes.
InitAny ==
    /\ \/ IsDocument(element, MaxNodes, LxmlLabels, LxmlTexts, LxmlForests)
       \/ IsDocument(element, MaxNodes, OtherLabels, {}, OtherForests)
    /\ Defaults

\* Lines 166-173: the entry point, called with any options on the parsed
\* document.
xml2json ==
    /\ pc = "ready"
    /\ \E sc \in BOOLEAN, hd \in BOOLEAN, cp \in BOOLEAN, rb \in BOOLEAN :
          /\ strip_cdata' = sc
          /\ header' = hd
          /\ compact' = cp
          /\ remove_blank_text' = rb
          /\ result' = parseelement(element, sc, hd, cp, rb)
    /\ pc' = "done"
    /\ UNCHANGED element

Next == xml2json

Spec == Init /\ [][Next]_vars

\* The same program on any object with the interface of a node.
SpecAny == InitAny /\ [][Next]_vars

----------------------------------------------------------------------------
(* Reading a document and a result *)

\* Every node of a document, a parent before its children.
RECURSIVE TreeNodes(_)
TreeNodes(e) == <<e>> \o FlatMap(TreeNodes, e.children)

\* Every value a result holds at any depth, itself included.
RECURSIVE SubValues(_)
SubValues(v) ==
    <<v>> \o (CASE v.t = "list" -> FlatMap(SubValues, v.items)
                [] v.t = "dict" -> FlatMap(LAMBDA en : SubValues(en.v), v.items)
                [] OTHER -> <<>>)

\* Every key/value entry of every mapping a result holds.
Entries(v) ==
    FlatMap(LAMBDA x : IF x.t = "dict" THEN x.items ELSE <<>>, SubValues(v))

Count(s, P(_)) == Len(SelectSeq(s, P))

\* The text runs a result holds under the given keys: a bare string is one
\* run, a list is one run for each entry.
RunsUnder(v, keys) ==
    FlatMap(LAMBDA en : IF en.v.t = "list" THEN en.v.items ELSE <<en.v>>,
            SelectSeq(Entries(v), LAMBDA en : en.k \in keys))

TextValues(v) == RunsUnder(v, {"text", "_text"})
CdataValues(v) == RunsUnder(v, {"cdata", "_cdata"})

HasChildren(e) == e.children # <<>>

\* The key a child is filed under in compact mode.
ChildKey(c) ==
    CASE c.kind = "comment" -> "_comment"
      [] c.kind = "pi" -> "_instruction"
      [] OTHER -> c.tag

----------------------------------------------------------------------------
(* C1 *)

\* The value the recursive call of line 138 returns for a child, under the
\* child's key.
ChildValue(c) == Get(parseelement(c, strip_cdata, FALSE, TRUE, TRUE), ChildKey(c))

\* How many of the first i children of e are filed under the key of child i.
Occurrence(e, i) ==
    Cardinality({ j \in 1..i : ChildKey(e.children[j]) = ChildKey(e.children[i]) })

RECURSIVE CompactFolded(_, _)
CompactFolded(e, container) ==
    \A i \in 1..Len(e.children) :
        LET c == e.children[i]
            n == Cardinality({ j \in 1..Len(e.children) :
                                 ChildKey(e.children[j]) = ChildKey(c) })
            held == Get(container, ChildKey(c))
            mine == IF n = 1 THEN held ELSE held.items[Occurrence(e, i)]
        IN  /\ Has(container, ChildKey(c))
            /\ IF n = 1
               THEN ~IsList(held) /\ held = ChildValue(c)
               ELSE /\ IsList(held)
                    /\ Len(held.items) = n
                    /\ held.items[Occurrence(e, i)] = ChildValue(c)
            /\ HasChildren(c) => CompactFolded(c, mine)

\* C1: in compact mode the container of every element with children holds,
\* under each key its children produce, the bare conversion of the child when
\* one child produces the key, and otherwise the list of the conversions of
\* the n children that produce it, in document order.
C1_CompactMultiplicity ==
    (pc = "done" /\ compact /\ HasChildren(element)) =>
        /\ IsDict(result)
        /\ Has(result, element.tag)
        /\ CompactFolded(element, Get(result, element.tag))

\* Three children under one key beside nothing else: the value was promoted
\* to a list at the second and appended to at the third.
C1_Witness ==
    /\ pc = "done" /\ compact
    /\ Len(element.children) = 3
    /\ \A i \in 1..3 : ChildKey(element.children[i]) = "a"
    /\ IsList(Get(Get(result, element.tag), "a"))
    /\ Len(Get(Get(result, element.tag), "a").items) = 3

----------------------------------------------------------------------------
(* C4 *)

OptionalFields == {"attributes", "elements", "_attributes", "_text", "_cdata"}

\* An empty mapping, an empty sequence or an absent value.
IsEmpty(v) == v.t = "none" \/ (v.t \in {"list", "dict"} /\ v.items = <<>>)

\* The verbose records of the nodes, in the order of TreeNodes: every record
\* that says it is an element, a comment or an instruction.
NodeRecords(v) ==
    SelectSeq(SubValues(v),
              LAMBDA x : /\ x.t = "dict" /\ Has(x, "type")
                         /\ Get(x, "type").s[1] \in {"element", "comment", "instruction"})

\* Whether a direct text run of the element outlives the stripping under rb.
HasSurvivingText(e, rb) ==
    \E i \in 1..Len(XPathText(e)) : ~rb \/ Strip(XPathText(e)[i].s) # <<>>

KeyCount(v, keys) == Count(Entries(v), LAMBDA en : en.k \in keys)

----------------------------------------------------------------------------
(* C6 *)

FixedDeclaration(attributes_key) ==
    Dict(<< [k |-> attributes_key,
             v |-> Dict(<< [k |-> "version", v |-> Str(<<"1.0">>)],
                           [k |-> "encoding", v |-> Str(<<"ISO-8859-1">>)] >>)] >>)

\* <root/>
EmptyRoot == Node("element", "a", <<>>, <<>>, <<>>, <<>>, <<>>)

\* C6: the declaration is in the result iff header is set, once, as a key
\* of the result itself (declaration in verbose mode, _declaration in
\* compact mode) with version 1.0 and encoding ISO-8859-1, and in no mapping
\* below; verbose mode on <root/> with header gives the declaration
\* followed by elements = [{type: element, name: root}].
C6_DeclarationAtRootOnly ==
    pc = "done" =>
        /\ IsDict(result)
        /\ header <=> Has(result, IF compact THEN "_declaration" ELSE "declaration")
        /\ ~Has(result, IF compact THEN "declaration" ELSE "_declaration")
        /\ header =>
              Get(result, IF compact THEN "_declaration" ELSE "declaration")
                 = FixedDeclaration(IF compact THEN "_attributes" ELSE "attributes")
        /\ KeyCount(result, {"declaration", "_declaration"}) = (IF header THEN 1 ELSE 0)
        /\ (header /\ ~compact /\ element = EmptyRoot) =>
              result = Dict(<< [k |-> "declaration", v |-> FixedDeclaration("attributes")],
                               [k |-> "elements",
                                v |-> List(<< Dict(<< [k |-> "type", v |-> Str(<<"element">>)],
                                                      [k |-> "name", v |-> Str(<<"a">>)] >>) >>)] >>)

\* A document three levels deep converted with the header, in compact mode.
C6_Witness ==
    /\ pc = "done" /\ header /\ compact
    /\ \E i \in 1..Len(element.children) : HasChildren(element.children[i])
    /\ Has(result, "_declaration")
    /\ KeyCount(result, {"declaration", "_declaration"}) = 1

----------------------------------------------------------------------------
(* C7 *)

\* C7: with strip_cdata no record of type cdata and no _cdata key is in the
\* result at any depth, and every text run the conversion keeps (as text or
\* as cdata without strip_cdata) is a text record or under _text.
C7_StripCdataAllText ==
    (pc = "done" /\ strip_cdata) =>
        LET unstripped == parseelement(element, FALSE, header, compact, remove_blank_text)
        IN  /\ KeyCount(result, {"cdata", "_cdata"}) = 0
            /\ Count(Entries(result),
                     LAMBDA en : en.k = "type" /\ en.v = Str(<<"cdata">>)) = 0
            /\ Len(TextValues(result)) =
                  Len(TextValues(unstripped)) + Len(CdataValues(unstripped))
            /\ ~compact =>
                  TextValues(result) = RunsUnder(unstripped, {"text", "cdata"})

\* A CDATA section in a nested element, converted with strip_cdata: its
\* text is a text run of the result.
C7_Witness ==
    /\ pc = "done" /\ strip_cdata
    /\ \E i \in 1..Len(element.children) :
          element.children[i].text = <<TextNode(TRUE, <<"x">>)>>
    /\ element.text = <<>>
    /\ TextValues(result) = <<Str(<<"x">>)>>

----------------------------------------------------------------------------
(* C8 *)

\* The number of direct text runs of e that outlive the stripping under rb.
SurvivingCount(e, rb) == Count(XPathText(e), LAMBDA n : ~rb \/ Strip(n.s) # <<>>)

\* record is the verbose record of e, converted by a call that was given rb.
RECURSIVE VerboseFlat(_, _, _)
VerboseFlat(e, record, rb) ==
    LET els == Get(record, "elements").items
        texts == xml_text(e, strip_cdata, FALSE, rb)
        own == IF IsList(texts) THEN texts.items ELSE <<>>
        k == SurvivingCount(e, rb)
    IN  /\ Has(record, "elements")
        /\ Len(own) = k
        /\ Len(els) = k + Len(e.children)
        /\ SubSeq(els, 1, k) = own
        /\ \A i \in 1..Len(e.children) :
              LET c == e.children[i]
                  converted == Get(parseelement(c, strip_cdata, FALSE, FALSE, TRUE),
                                   "elements").items
              IN  /\ Len(converted) = 1
                  /\ els[k + i] = converted[1]
                  /\ IsDict(els[k + i])
                  /\ HasChildren(c) => VerboseFlat(c, els[k + i], TRUE)

\* C8: in verbose mode the elements of every element with children are its
\* own surviving direct text runs in run order, then for each child in
\* document order the entries of the child's converted elements, one entry
\* for each child: as many entries as surviving runs and children.  (The
\* runs of an element survive under the remove_blank_text its call was
\* given.)
C8_VerboseFlatSiblings ==
    (pc = "done" /\ ~compact /\ HasChildren(element)) =>
        /\ Has(result, "elements")
        /\ Len(Get(result, "elements").items) = 1
        /\ VerboseFlat(element, Get(result, "elements").items[1], remove_blank_text)

\* An element with a text run and a child that has a child of its own: the
\* grandchild is inside the child's record, not beside it.
C8_Witness ==
    /\ pc = "done" /\ ~compact
    /\ Len(element.children) = 1
    /\ HasChildren(element.children[1])
    /\ SurvivingCount(element, remove_blank_text) = 1
    /\ Len(Get(Get(result, "elements").items[1], "elements").items) = 2

----------------------------------------------------------------------------
(* C2 *)

\* <a>  </a>: an element whose only content is one run of whitespace.
IsBlankOnly(e) ==
    /\ e.kind = "element" /\ ~HasChildren(e)
    /\ e.text = <<TextNode(FALSE, <<" ">>)>>

AllRuns(v) == RunsUnder(v, {"text", "_text", "cdata", "_cdata"})

\* C2: <a>  </a> converted with remove_blank_text has no text node;
\* converted without it, it has one text node, of whitespace only.
C2_BlankTextPolicy ==
    (pc = "done" /\ IsBlankOnly(element)) =>
        /\ remove_blank_text => AllRuns(result) = <<>>
        /\ ~remove_blank_text =>
              /\ Len(TextValues(result)) = 1
              /\ Strip(TextValues(result)[1].s) = <<>>

----------------------------------------------------------------------------
(* C3 *)

\* The first failure of text extraction or of leaf classification that a
\* walk of the document meets, parents before children; None without one.
RECURSIVE FirstFailure(_)
RECURSIVE FirstFailureAmong(_)
FirstFailureAmong(cs) ==
    IF cs = <<>> THEN None
    ELSE IF FirstFailure(Head(cs)) # None THEN FirstFailure(Head(cs))
    ELSE FirstFailureAmong(Tail(cs))

FirstFailure(e) ==
    IF IsErr(xml_text(e, strip_cdata, compact, remove_blank_text))
    THEN xml_text(e, strip_cdata, compact, remove_blank_text)
    ELSE IF ~HasChildren(e)
    THEN IF IsErr(leafelement(e, strip_cdata, compact, remove_blank_text))
         THEN leafelement(e, strip_cdata, compact, remove_blank_text)
         ELSE None
    ELSE FirstFailureAmong(e.children)

\* C3: the result is a value that holds no error object at any depth, or
\* it is the error of the first failure of the walk: no failure is a member
\* of a mapping or sequence, and none is replaced by a later error.
C3_SingleTerminalError ==
    pc = "done" =>
        IF FirstFailure(element) = None
        THEN Count(SubValues(result), IsErr) = 0
        ELSE result = FirstFailure(element)

----------------------------------------------------------------------------
(* C5 *)

IsTextRecord(x) == IsDict(x) /\ Has(x, "type") /\ Get(x, "type").s[1] \in {"text", "cdata"}

\* What a record of an elements sequence stands for: a text, or an element
\* by its name.
RecordShape(x) ==
    IF IsTextRecord(x)
    THEN <<"text", Get(x, Get(x, "type").s[1]).s>>
    ELSE <<"node", Get(x, "name").s>>

\* The surviving text runs among ns, as shapes.
RunShapes(ns, rb) ==
    Map(LAMBDA n : <<"text", Strip(n.s)>>,
        SelectSeq(ns, LAMBDA n : ~rb \/ Strip(n.s) # <<>>))

\* The content of e in document order: its text, then each child followed
\* by the text after it.
DocumentShape(e, rb) ==
    RunShapes(e.text, rb)
        \o FlatMap(LAMBDA c : << <<"node", <<c.tag>> >> >> \o RunShapes(c.tail, rb), e.children)

\* C5: without comments and processing instructions, in verbose mode the
\* text records and the child records of every element are in the order of
\* the text runs and child elements of the document, also where a text
\* follows a child.
C5_DocumentOrder ==
    (pc = "done" /\ ~compact
        /\ Count(TreeNodes(element), LAMBDA n : n.kind # "element") = 0) =>
        LET nodes == TreeNodes(element)
            records == NodeRecords(result)
        IN  /\ Len(records) = Len(nodes)
            /\ \A i \in 1..Len(nodes) :
                  HasChildren(nodes[i]) =>
                      Map(RecordShape, Get(records[i], "elements").items)
                          = DocumentShape(nodes[i], remove_blank_text)

----------------------------------------------------------------------------
(* C9 *)

\* The text records of a verbose record, as <<type, text>>.
EmittedRuns(record) ==
    IF Has(record, "elements")
    THEN Map(LAMBDA x : <<Get(x, "type").s[1], Get(x, Get(x, "type").s[1]).s>>,
             SelectSeq(Get(record, "elements").items, IsTextRecord))
    ELSE <<>>

NonBlank(runs) == SelectSeq(runs, LAMBDA r : r[2] # <<>>)

\* The direct text runs of e by their own status in the source.
SourceRuns(e) ==
    Map(LAMBDA n : <<IF n.cdata THEN "cdata" ELSE "text", Strip(n.s)>>, XPathText(e))

\* C9: without strip_cdata a surviving direct text run is emitted as cdata
\* iff that run was a CDATA section in the source.
C9_ClassifiedByOwnStatus ==
    (pc = "done" /\ ~strip_cdata) =>
        LET nodes == TreeNodes(element)
            records == NodeRecords(result)
        IN  /\ ~compact =>
                  /\ Len(records) = Len(nodes)
                  /\ \A i \in 1..Len(nodes) :
                        NonBlank(EmittedRuns(records[i])) = NonBlank(SourceRuns(nodes[i]))
            /\ compact =>
                  Count(CdataValues(result), LAMBDA x : x.s # <<>>) =
                      Count(FlatMap(SourceRuns, nodes),
                            LAMBDA r : r[1] = "cdata" /\ r[2] # <<>>)

----------------------------------------------------------------------------
(* C10 *)

RECURSIVE Sum(_)
Sum(s) == IF s = <<>> THEN 0 ELSE Head(s) + Sum(Tail(s))

\* C10: the text records of every element at any depth are those of
\* xml_text with the options of the root call.
C10_FlagsAtEveryNode ==
    pc = "done" =>
        LET nodes == TreeNodes(element)
            records == NodeRecords(result)
            own(n) == xml_text(n, strip_cdata, compact, remove_blank_text)
        IN  /\ ~compact =>
                  /\ Len(records) = Len(nodes)
                  /\ \A i \in 1..Len(nodes) :
                        nodes[i].kind = "element" =>
                            (IF Has(records[i], "elements")
                             THEN SelectSeq(Get(records[i], "elements").items, IsTextRecord)
                             ELSE <<>>)
                            = (IF IsList(own(nodes[i])) THEN own(nodes[i]).items ELSE <<>>)
            /\ compact =>
                  Len(AllRuns(result)) =
                      Sum(Map(LAMBDA n : SurvivingCount(n, remove_blank_text), nodes))

====
